---- MODULE Spec2Model ----
(***************************************************************************)
(* Model of the Archivist bot (src/main.py): the on_message handler of     *)
(* MyClient, its data.json store, and the paginated reply of !load.        *)
(*                                                                         *)
(* Text is modelled as a sequence of one-character strings, so slicing,    *)
(* trimming, JSON quoting and pagination are computed character by         *)
(* character as the Python code computes them.  The backquote, which a     *)
(* TLA+ string cannot hold, is the element "<bq>".                         *)
(***************************************************************************)
EXTENDS Integers, Sequences, FiniteSets, TLC

(* ---------------------------------------------------------------- text *)

\* s[n:] of Python
Drop(s, n) == IF n >= Len(s) THEN <<>> ELSE SubSeq(s, n + 1, Len(s))

\* s[a:b] of Python for 0 <= a, with b clipped to len(s)
Slice(s, a, b) ==
    LET e == IF b > Len(s) THEN Len(s) ELSE b
    IN  IF a >= e THEN <<>> ELSE SubSeq(s, a + 1, e)

\* str.startswith
StartsWith(s, p) == Len(s) >= Len(p) /\ SubSeq(s, 1, Len(p)) = p

IsSpace(c) == c \in {" ", "\n", "\t"}

RECURSIVE LStrip(_)
LStrip(s) == IF s # <<>> /\ IsSpace(Head(s)) THEN LStrip(Tail(s)) ELSE s

RECURSIVE RStrip(_)
RStrip(s) ==
    IF s # <<>> /\ IsSpace(s[Len(s)]) THEN RStrip(SubSeq(s, 1, Len(s) - 1)) ELSE s

\* str.strip
Strip(s) == RStrip(LStrip(s))

\* sep.join(parts)
RECURSIVE Join(_, _)
Join(parts, sep) ==
    IF parts = <<>> THEN <<>>
    ELSE IF Len(parts) = 1 THEN parts[1]
    ELSE parts[1] \o sep \o Join(Tail(parts), sep)

Digits == <<"0", "1", "2", "3", "4", "5", "6", "7", "8", "9">>

IsDigit(c) == \E d \in 1..10 : Digits[d] = c

DigitVal(c) == (CHOOSE d \in 1..10 : Digits[d] = c) - 1

\* str(n) for n >= 0
RECURSIVE IntToChars(_)
IntToChars(n) ==
    IF n < 10 THEN <<Digits[n + 1]>>
    ELSE IntToChars(n \div 10) \o <<Digits[(n % 10) + 1]>>

\* the %02d fields of strftime / isoformat
Pad2(n) == <<Digits[(n \div 10) + 1], Digits[(n % 10) + 1]>>

(* ---------------------------------------------------------------- JSON *)
\* A JSON value as json.load returns it: a tagged record.  An object keeps
\* its keys in insertion order, as a Python dict does.
JNull == [t |-> "null", v |-> 0]
JStr(s) == [t |-> "str", v |-> s]
JNum(n) == [t |-> "num", v |-> n]
JList(items) == [t |-> "list", v |-> items]
JObj(pairs) == [t |-> "obj", v |-> pairs]

AUTHOR == <<"a","u","t","h","o","r">> (* author *)
TIMESTAMP == <<"t","i","m","e","s","t","a","m","p">> (* timestamp *)
PAYLOAD == <<"p","a","y","l","o","a","d">> (* payload *)
UNKNOWN == <<"u","n","k","n","o","w","n">> (* unknown *)

\* isinstance(x, dict) and key in x
HasKey(x, key) == x.t = "obj" /\ \E k \in 1..Len(x.v) : x.v[k][1] = key

\* dict.get(key): None when the key is missing
Get(x, key) ==
    IF HasKey(x, key)
    THEN x.v[CHOOSE k \in 1..Len(x.v) : x.v[k][1] = key][2]
    ELSE JNull

\* Python truthiness of a JSON value
Truthy(x) ==
    CASE x.t = "null" -> FALSE
      [] x.t = "num" -> x.v # 0
      [] OTHER -> x.v # <<>>

\* the escapes json.dumps applies with ensure_ascii=False
EscapeChar(c) ==
    CASE c = "\"" -> <<"\\", "\"">>
      [] c = "\\" -> <<"\\", "\\">>
      [] c = "\n" -> <<"\\", "n">>
      [] c = "\t" -> <<"\\", "t">>
      [] OTHER -> <<c>>

\* character by character, left to right (split in halves to keep the
\* recursion shallow on long texts)
RECURSIVE Escape(_)
Escape(s) ==
    IF s = <<>> THEN <<>>
    ELSE IF Len(s) = 1 THEN EscapeChar(s[1])
    ELSE LET h == Len(s) \div 2
         IN  Escape(SubSeq(s, 1, h)) \o Escape(SubSeq(s, h + 1, Len(s)))

\* json.dumps of a string
Quote(s) == <<"\"">> \o Escape(s) \o <<"\"">>

\* json.dumps(x, ensure_ascii=False), default separators
RECURSIVE Dumps(_)
Dumps(x) ==
    CASE x.t = "null" -> <<"n","u","l","l">> (* null *)
      [] x.t = "num" -> IntToChars(x.v)
      [] x.t = "str" -> Quote(x.v)
      [] x.t = "list" ->
           <<"[">> \o Join([k \in 1..Len(x.v) |-> Dumps(x.v[k])], <<","," ">>) \o <<"]">>
      [] x.t = "obj" ->
           <<"{">>
           \o Join([k \in 1..Len(x.v) |->
                       Quote(x.v[k][1]) \o <<":"," ">> \o Dumps(x.v[k][2])], <<","," ">>)
           \o <<"}">>

(* ---------------------------------------------------------- timestamps *)
\* A datetime: minutes since the start of day 0 of the month, the month and
\* year it lies in, and its UTC offset in minutes (naive: it has none).

\* datetime.isoformat() of message.created_at, an aware UTC datetime
IsoFormat(dt) ==
    IntToChars(dt.year) \o <<"-">> \o Pad2(dt.month) \o <<"-">>
    \o Pad2(dt.min \div 1440) \o <<"T">>
    \o Pad2((dt.min % 1440) \div 60) \o <<":">>
    \o Pad2(dt.min % 60) \o <<":","0","0","+","0","0",":","0","0">> (* :00+00:00 *)

Num2(s, k) == 10 * DigitVal(s[k]) + DigitVal(s[k + 1])

\* does s have the shape YYYY-MM-DDTHH:MM:SS or YYYY-MM-DDTHH:MM:SS+HH:MM
\* with every field in range
IsoWellFormed(s) ==
    /\ Len(s) \in {19, 25}
    /\ \A k \in {1, 2, 3, 4, 6, 7, 9, 10, 12, 13, 15, 16, 18, 19} : IsDigit(s[k])
    /\ s[5] = "-" /\ s[8] = "-" /\ s[11] = "T" /\ s[14] = ":" /\ s[17] = ":"
    /\ Num2(s, 6) \in 1..12 /\ Num2(s, 9) \in 1..28
    /\ Num2(s, 12) < 24 /\ Num2(s, 15) < 60 /\ Num2(s, 18) < 60
    /\ Len(s) = 25 =>
         /\ s[20] \in {"+", "-"} /\ s[23] = ":"
         /\ \A k \in {21, 22, 24, 25} : IsDigit(s[k])
         /\ Num2(s, 21) < 24 /\ Num2(s, 24) < 60

\* datetime.fromisoformat(s); ok = FALSE stands for ValueError
FromIsoFormat(s) ==
    IF ~IsoWellFormed(s) THEN [ok |-> FALSE]
    ELSE [ok |-> TRUE,
          year |-> 100 * Num2(s, 1) + Num2(s, 3),
          month |-> Num2(s, 6),
          min |-> Num2(s, 9) * 1440 + Num2(s, 12) * 60 + Num2(s, 15),
          sec |-> Num2(s, 18),
          naive |-> Len(s) = 19,
          off |-> IF Len(s) = 19 THEN 0
                  ELSE (IF s[20] = "-" THEN -1 ELSE 1)
                       * (Num2(s, 21) * 60 + Num2(s, 24))]

\* ZoneInfo(key): the zone, ZoneInfoNotFoundError, or the ValueError that
\* zoneinfo raises for a key that is an absolute or non-normalized path
ZoneInfo(key) ==
    CASE key = <<"E","u","r","o","p","e","/","B","e","r","l","i","n">> (* Europe/Berlin *) -> [res |-> "ok", off |-> 60, abbr |-> <<"C","E","T">>]
      [] key = <<"U","T","C">> -> [res |-> "ok", off |-> 0, abbr |-> <<"U","T","C">>]
      [] Head(key) \in {"/", "."} -> [res |-> "ValueError"]
      [] OTHER -> [res |-> "ZoneInfoNotFoundError"]

\* the zone dt.astimezone() converts to: the server's local zone
LocalZone == [res |-> "ok", off |-> 0, abbr |-> <<"U","T","C">>]

\* local_dt.strftime('%Y-%m-%d %H:%M:%S %Z') after dt.astimezone(zone), a
\* naive dt taken as UTC
HumanTime(dt, zone) ==
    LET from == IF dt.naive THEN 0 ELSE dt.off
        m == dt.min - from + zone.off
    IN  IntToChars(dt.year) \o <<"-">> \o Pad2(dt.month) \o <<"-">>
        \o Pad2(m \div 1440) \o <<" ">>
        \o Pad2((m % 1440) \div 60) \o <<":">> \o Pad2(m % 60)
        \o <<":">> \o Pad2(dt.sec) \o <<" ">> \o zone.abbr

NONE == <<"N","o","n","e">> (* None *)

\* human_ts of one entry, as formatted into the Timestamp line
HumanTs(ts, tz_obj) ==
    IF ~Truthy(ts) THEN NONE
    ELSE LET dt == FromIsoFormat(ts.v)
         IN  IF ~dt.ok THEN ts.v
             ELSE HumanTime(dt, IF tz_obj.res = "ok" THEN tz_obj ELSE LocalZone)

\* tz_obj = None: no timezone argument was given
NoZone == [res |-> "None"]

(* ------------------------------------------------- grouping and rendering *)
\* entry.get('author') or 'unknown', for the string and null authors of the
\* stored entries
GroupKey(entry) ==
    LET a == Get(entry, AUTHOR) IN IF Truthy(a) THEN a.v ELSE UNKNOWN

\* the wrapper taking over the timestamp the legacy entry may carry
WrapLegacyKeepsTimestamp(entry) ==
    JObj(<< <<AUTHOR, JStr(UNKNOWN)>>, <<TIMESTAMP, Get(entry, TIMESTAMP)>>,
            <<PAYLOAD, entry>> >>)

\* the legacy entry wrapped into the standard shape
WrapLegacy(entry) ==
    JObj(<< <<AUTHOR, JStr(UNKNOWN)>>, <<TIMESTAMP, JNull>>, <<PAYLOAD, entry>> >>)

\* grouped.setdefault(key, []).append(ent): grouped is the dict as a
\* sequence of [key, entries] in insertion order
SetDefaultAppend(grouped, key, ent) ==
    IF \E k \in 1..Len(grouped) : grouped[k].key = key
    THEN [k \in 1..Len(grouped) |->
            IF grouped[k].key = key
            THEN [key |-> key, entries |-> Append(grouped[k].entries, ent)]
            ELSE grouped[k]]
    ELSE Append(grouped, [key |-> key, entries |-> <<ent>>])

\* one iteration of the grouping loop
GroupStep(grouped, entry) ==
    IF HasKey(entry, AUTHOR)
    THEN SetDefaultAppend(grouped, GroupKey(entry), entry)
    ELSE SetDefaultAppend(grouped, UNKNOWN, WrapLegacy(entry))

\* the grouping loop over data[1..n]
RECURSIVE GroupUpTo(_, _)
GroupUpTo(data, n) ==
    IF n = 0 THEN <<>> ELSE GroupStep(GroupUpTo(data, n - 1), data[n])

GroupByAuthor(data) == GroupUpTo(data, Len(data))

\* the payload an entry is displayed with
PayloadOf(ent) == IF HasKey(ent, PAYLOAD) THEN Get(ent, PAYLOAD) ELSE ent

HeaderLine(author, n) ==
    <<"A","u","t","h","o","r",":"," ">> (* Author:  *) \o author \o <<" ","(">> \o IntToChars(n) \o <<" ","m","e","s","s","a","g","e","(","s",")",")">> (*  message(s)) *)

PayloadLine(idx, ent) ==
    <<" "," ">> \o IntToChars(idx) \o <<")"," ">> \o Dumps(PayloadOf(ent))

TimestampLine(ent, tz_obj) ==
    <<" "," "," "," "," "," "," ","T","i","m","e","s","t","a","m","p",":"," ">> (*        Timestamp:  *) \o HumanTs(Get(ent, TIMESTAMP), tz_obj)

\* the lines of entries[1..n] of one group
RECURSIVE EntryLines(_, _, _)
EntryLines(entries, n, tz_obj) ==
    IF n = 0 THEN <<>>
    ELSE EntryLines(entries, n - 1, tz_obj)
         \o <<PayloadLine(n, entries[n]), TimestampLine(entries[n], tz_obj)>>

\* the lines of one author group, closed by the empty line
GroupLines(g, tz_obj) ==
    <<HeaderLine(g.key, Len(g.entries))>>
    \o EntryLines(g.entries, Len(g.entries), tz_obj) \o << <<>> >>

\* parts, for grouped[1..n]
RECURSIVE PartsUpTo(_, _, _)
PartsUpTo(grouped, n, tz_obj) ==
    IF n = 0 THEN <<>>
    ELSE PartsUpTo(grouped, n - 1, tz_obj) \o GroupLines(grouped[n], tz_obj)

Parts(grouped, tz_obj) == PartsUpTo(grouped, Len(grouped), tz_obj)

\* friendly_text
FriendlyText(grouped, tz_obj) == Join(Parts(grouped, tz_obj), <<"\n">>)

(* ------------------------------------------------------------ pagination *)
max_chunk == 1900

HEADER == <<"S","a","v","e","d"," ","m","e","s","s","a","g","e","s",":">> (* Saved messages: *)

\* lang=None, the only value the call site passes
NoLang == <<>>

FENCE == <<"<bq>","<bq>","<bq>">>

\* the slice without its upper end
ChunkToEnd(text, i) == Drop(text, i)

\* chunk = text[i:i+max_chunk]
Chunk(text, i) == Slice(text, i, i + max_chunk)

\* the content sent in the loop iteration at offset i
Content(header, text, i, lang) ==
    IF i = 0
    THEN IF lang # <<>>
         THEN header \o <<"\n">> \o FENCE \o lang \o <<"\n">> \o Chunk(text, i)
              \o <<"\n">> \o FENCE
         ELSE header \o <<"\n">> \o Chunk(text, i)
    ELSE IF lang # <<>>
         THEN FENCE \o lang \o <<"\n">> \o Chunk(text, i) \o <<"\n">> \o FENCE
         ELSE Chunk(text, i)

\* the loop bound taken inclusive
InRangeInclusive(text, i) == i <= Len(text)

\* does range(0, len(text), max_chunk) hold offset i
InRange(text, i) == i < Len(text)

\* _send_paginated from its call to its first await: the loop's first
\* iteration, if there is one
PaginateStart(text) ==
    IF InRange(text, 0)
    THEN [pc |-> "paginating", i |-> 0, send |-> <<Content(HEADER, text, 0, NoLang)>>]
    ELSE [pc |-> "done", i |-> 0, send |-> <<>>]

\* _send_paginated from one await to the next: the following iteration, or
\* the end of the loop
PaginateResume(text, i) ==
    LET j == i + max_chunk
    IN  IF InRange(text, j)
        THEN [pc |-> "paginating", i |-> j, send |-> <<Content(HEADER, text, j, NoLang)>>]
        ELSE [pc |-> "done", i |-> j, send |-> <<>>]

(* ------------------------------------------------------ replies and store *)
USAGE == <<"P","l","e","a","s","e"," ","p","r","o","v","i","d","e"," ","t","e","x","t"," ","t","o"," ","s","a","v","e","."," ","U","s","a","g","e",":"," ","<bq>","!","s","a","v","e"," ","y","o","u","r"," ","t","e","x","t"," ","h","e","r","e","<bq>">> (* Please provide text to save. Usage: `!save your text here` *)
SAVED == <<"S","a","v","e","d"," ","t","o"," ","<bq>","d","a","t","a",".","j","s","o","n","<bq>",".">> (* Saved to `data.json`. *)
NO_DATA == <<"N","o"," ","d","a","t","a"," ","f","o","u","n","d","."," ","<bq>","d","a","t","a",".","j","s","o","n","<bq>"," ","d","o","e","s"," ","n","o","t"," ","e","x","i","s","t",".">> (* No data found. `data.json` does not exist. *)
CORRUPTED == <<"E","r","r","o","r"," ","r","e","a","d","i","n","g"," ","<bq>","d","a","t","a",".","j","s","o","n","<bq>","."," ","T","h","e"," ","f","i","l","e"," ","m","a","y"," ","b","e"," ","c","o","r","r","u","p","t","e","d",".">> (* Error reading `data.json`. The file may be corrupted. *)

UnknownTimezone(tz_arg) ==
    <<"U","n","k","n","o","w","n"," ","t","i","m","e","z","o","n","e",":"," ","<bq>">> (* Unknown timezone: ` *) \o tz_arg
    \o <<"<bq>","."," ","U","s","e"," ","a","n"," ","I","A","N","A"," ","t","i","m","e","z","o","n","e"," ","n","a","m","e"," ","l","i","k","e"," ","<bq>","E","u","r","o","p","e","/","B","e","r","l","i","n","<bq>",".">> (* `. Use an IANA timezone name like `Europe/Berlin`. *)

SAVE == <<"!","s","a","v","e">> (* !save *)
LOAD == <<"!","l","o","a","d">> (* !load *)

\* the slice without .strip()
ContentStrUntrimmed(content) == Drop(content, Len(SAVE) + 1)

\* message.content[len('!save '):].strip()
ContentStr(content) == Strip(Drop(content, Len(SAVE) + 1))

\* message.content[len('!load'):].strip()
TzArg(content) == Strip(Drop(content, Len(LOAD)))

\* the payload taken without .strip()
SavedEntryUntrimmed(m) ==
    JObj(<< <<AUTHOR, JStr(m.author)>>,
            <<TIMESTAMP, JStr(IsoFormat(m.created_at))>>,
            <<PAYLOAD, JStr(Drop(m.content, Len(SAVE) + 1))>> >>)

\* saved_entry
SavedEntry(m) ==
    JObj(<< <<AUTHOR, JStr(m.author)>>,
            <<TIMESTAMP, JStr(IsoFormat(m.created_at))>>,
            <<PAYLOAD, JStr(ContentStr(m.content))>> >>)

\* data.json: absent, not parseable as JSON, or holding a JSON value
Absent == [kind |-> "absent", val |-> JNull]
Unparseable == [kind |-> "corrupt", val |-> JNull]
Holding(x) == [kind |-> "json", val |-> x]

\* every value wrapped, a list too
AsListAlwaysWraps(x) == <<x>>

\* isinstance(x, list) ? x : [x]
AsList(x) == IF x.t = "list" THEN x.v ELSE <<x>>

\* a lone value dropped instead of wrapped
ExistingDataListOnly(f) == IF f.kind = "json" /\ f.val.t = "list" THEN f.val.v ELSE <<>>

\* data, as the save branch reads it before appending
ExistingData(f) == IF f.kind = "json" THEN AsList(f.val) ELSE <<>>

\* the file rewritten with the new entry alone
AfterAppendFresh(f, entry) == Holding(JList(<<entry>>))

\* the file after data.append(saved_entry) and json.dump(data, f)
AfterAppend(f, entry) == Holding(JList(Append(ExistingData(f), entry)))

(* ------------------------------------------------------------- the state *)
VARIABLES
    file,     \* data.json
    file0,    \* data.json as it was when the bot started
    hs,       \* the on_message calls so far, in order of arrival: their
              \* message, where each is suspended, and its locals
    outbox,   \* the messages sent to the channel, in send order, each with
              \* the call that sent it
    pg        \* one _send_paginated call on a text of its own

vars == <<file, file0, hs, outbox, pg>>

\* messages handled in one run
MaxMsgs == 2

AL == <<"a","l">>
BOB == <<"b","o","b">>

\* a payload whose rendering does not fit one chunk
LongText == [k \in 1..max_chunk |-> "x"]

\* the inbound messages: author and content
Messages ==
    { [author |-> AL, content |-> <<"!","s","a","v","e"," ","a","\"","b">> (* !save a"b *)],
      [author |-> BOB, content |-> <<"!","s","a","v","e"," "," "," ","b"," ","c">> (* !save   b c *)],
      [author |-> AL, content |-> <<"!","s","a","v","e"," "," "," ">> (* !save    *)],
      [author |-> BOB, content |-> <<"!","s","a","v","e">> (* !save *)],
      [author |-> AL, content |-> <<"!","l","o","a","d">> (* !load *)],
      [author |-> BOB, content |-> <<"!","l","o","a","d"," ","E","u","r","o","p","e","/","B","e","r","l","i","n">> (* !load Europe/Berlin *)],
      [author |-> AL, content |-> <<"!","l","o","a","d"," ","b","a","d","z","o","n","e">> (* !load badzone *)],
      [author |-> BOB, content |-> <<"!","l","o","a","d"," ",".",".","/","x">> (* !load ../x *)],
      [author |-> AL, content |-> <<"h","e","l","l","o">> (* hello *)] }

\* message.created_at of the n-th message to arrive
CreatedAt(n) == [year |-> 2024, month |-> 1, min |-> 15 * 1440 + 23 * 60 + 57 + n]

Entry(author, ts, payload) ==
    JObj(<< <<AUTHOR, author>>, <<TIMESTAMP, ts>>, <<PAYLOAD, payload>> >>)

\* the contents data.json may start with
InitialFiles ==
    { Absent,
      Unparseable,
      Holding(JList(<<>>)),
      Holding(JObj(<< <<<<"n","o","t","e">> (* note *), JNum(70)>>, <<TIMESTAMP, JStr(<<"x">>)>> >>)),
      Holding(JList(<< JStr(<<"s">>),
                       Entry(JStr(AL), JStr(<<"2","0","2","4","-","0","1","-","1","5","T","2","3",":","3","0",":","0","0","+","0","2",":","0","0">> (* 2024-01-15T23:30:00+02:00 *)), JStr(<<"p">>)),
                       Entry(JStr(UNKNOWN), JStr(<<"2","0","2","4","-","0","1","-","1","5","T","1","0",":","0","0",":","0","7">> (* 2024-01-15T10:00:07 *)), JNum(7)) >>)),
      Holding(JList(<< Entry(JStr(BOB), JStr(<<"2","0","2","4","-","0","1","-","1","5","T","0","9",":","0","0",":","0","0","+","0","0",":","0","0">> (* 2024-01-15T09:00:00+00:00 *)),
                             JStr(LongText)) >>)),
      Holding(JList(<< Entry(JStr(<<>>), JStr(<<"b","a","d">>), JStr(<<"q">>)),
                       JObj(<< <<PAYLOAD, JStr(<<"z">>)>> >>),
                       JObj(<< <<AUTHOR, JNull>>, <<TIMESTAMP, JNull>> >>) >>)) }

\* an on_message call: pc is where it stands; tz_obj, data, text and i are
\* the locals of the load branch
Call(m, pc, tz_obj, data, text, i) ==
    [msg |-> m, pc |-> pc, tz_obj |-> tz_obj, data |-> data, text |-> text, i |-> i]

Idle == [text |-> <<>>, i |-> 0, pc |-> "idle", sent |-> <<>>]

Init ==
    /\ file \in InitialFiles
    /\ file0 = file
    /\ hs = <<>>
    /\ outbox = <<>>
    /\ pg = Idle

\* the messages that may arrive next, stamped with their creation time
Incoming ==
    IF Len(hs) < MaxMsgs
    THEN { [author |-> x.author, content |-> x.content,
            created_at |-> CreatedAt(Len(hs) + 1)] : x \in Messages }
    ELSE {}

\* await channel.send(content) by call h: the message goes out and the call
\* is suspended
Send(h, content) == outbox' = Append(outbox, [h |-> h, content |-> content])

NoLocals(m, pc) == Call(m, pc, NoZone, <<>>, <<>>, 0)

(* on_message from its start to its first await (or to its end), one action
   per path through the code.  The event loop starts the calls in the order
   the messages arrived, and nothing else runs until the call awaits. *)

\* !save with nothing to save: the usage hint
SaveUsage(m) ==
    /\ StartsWith(m.content, SAVE)
    /\ ContentStr(m.content) = <<>>
    /\ Send(Len(hs) + 1, USAGE)
    /\ hs' = Append(hs, NoLocals(m, "return"))
    /\ UNCHANGED <<file, file0, pg>>

\* !save text: read data.json, append the entry, rewrite the file, confirm
SaveAppend(m) ==
    /\ StartsWith(m.content, SAVE)
    /\ ContentStr(m.content) # <<>>
    /\ file' = AfterAppend(file, SavedEntry(m))
    /\ Send(Len(hs) + 1, SAVED)
    /\ hs' = Append(hs, NoLocals(m, "saved"))
    /\ UNCHANGED <<file0, pg>>

\* !load zone, ZoneInfo raising ZoneInfoNotFoundError
LoadUnknownTimezone(m) ==
    /\ StartsWith(m.content, LOAD)
    /\ TzArg(m.content) # <<>>
    /\ ZoneInfo(TzArg(m.content)).res = "ZoneInfoNotFoundError"
    /\ Send(Len(hs) + 1, UnknownTimezone(TzArg(m.content)))
    /\ hs' = Append(hs, NoLocals(m, "return"))
    /\ UNCHANGED <<file, file0, pg>>

\* !load zone, ZoneInfo raising an exception the handler does not catch:
\* the call ends with it
LoadZoneRaises(m) ==
    /\ StartsWith(m.content, LOAD)
    /\ TzArg(m.content) # <<>>
    /\ ZoneInfo(TzArg(m.content)).res = "ValueError"
    /\ hs' = Append(hs, NoLocals(m, "raised"))
    /\ UNCHANGED <<file, file0, outbox, pg>>

\* tz_obj once the timezone argument, if any, is resolved
TzObj(m) == IF TzArg(m.content) = <<>> THEN NoZone ELSE ZoneInfo(TzArg(m.content))

\* the load branch gets past the timezone argument
LoadReads(m) ==
    /\ StartsWith(m.content, LOAD)
    /\ TzArg(m.content) # <<>> => ZoneInfo(TzArg(m.content)).res = "ok"

\* !load, open() raising FileNotFoundError
LoadNoData(m) ==
    /\ LoadReads(m)
    /\ file.kind = "absent"
    /\ Send(Len(hs) + 1, NO_DATA)
    /\ hs' = Append(hs, Call(m, "reported", TzObj(m), <<>>, <<>>, 0))
    /\ UNCHANGED <<file, file0, pg>>

\* the load branch recovering as the save branch does: a fresh list written
LoadCorruptedResets(m) ==
    /\ LoadReads(m)
    /\ file.kind = "corrupt"
    /\ file' = Holding(JList(<<>>))
    /\ Send(Len(hs) + 1, CORRUPTED)
    /\ hs' = Append(hs, Call(m, "reported", TzObj(m), <<>>, <<>>, 0))
    /\ UNCHANGED <<file0, pg>>

\* !load, json.load raising JSONDecodeError
LoadCorrupted(m) ==
    /\ LoadReads(m)
    /\ file.kind = "corrupt"
    /\ Send(Len(hs) + 1, CORRUPTED)
    /\ hs' = Append(hs, Call(m, "reported", TzObj(m), <<>>, <<>>, 0))
    /\ UNCHANGED <<file, file0, pg>>

\* !load: read, normalize, group, render, and send the first chunk if the
\* text has one
LoadShow(m) ==
    /\ LoadReads(m)
    /\ file.kind = "json"
    /\ LET data == AsList(file.val)
           text == FriendlyText(GroupByAuthor(data), TzObj(m))
           p == PaginateStart(text)
       IN  /\ outbox' = outbox \o [k \in 1..Len(p.send) |->
                                     [h |-> Len(hs) + 1, content |-> p.send[k]]]
           /\ hs' = Append(hs, Call(m, p.pc, TzObj(m), data, text, p.i))
    /\ UNCHANGED <<file, file0, pg>>

\* a message that is neither command
Ignore(m) ==
    /\ ~StartsWith(m.content, SAVE)
    /\ ~StartsWith(m.content, LOAD)
    /\ hs' = Append(hs, NoLocals(m, "done"))
    /\ UNCHANGED <<file, file0, outbox, pg>>

(* A suspended call resumes when its send completes; which of the suspended
   calls resumes next is up to the event loop. *)

\* after the usage hint, the unknown-timezone reply (return), the
\* confirmation of a save (the !load test fails) or an error reply of load
\* (end of the handler): the call ends
Finish(h) ==
    /\ hs[h].pc \in {"return", "saved", "reported"}
    /\ hs' = [hs EXCEPT ![h].pc = "done"]
    /\ UNCHANGED <<file, file0, outbox, pg>>

\* _send_paginated resumes: the next chunk, or the end of the loop
NextChunk(h) ==
    /\ hs[h].pc = "paginating"
    /\ LET p == PaginateResume(hs[h].text, hs[h].i)
       IN  /\ outbox' = outbox \o [k \in 1..Len(p.send) |->
                                     [h |-> h, content |-> p.send[k]]]
           /\ hs' = [hs EXCEPT ![h].pc = p.pc, ![h].i = p.i]
    /\ UNCHANGED <<file, file0, pg>>

Next ==
    \/ \E m \in Incoming : SaveUsage(m)
    \/ \E m \in Incoming : SaveAppend(m)
    \/ \E m \in Incoming : LoadUnknownTimezone(m)
    \/ \E m \in Incoming : LoadZoneRaises(m)
    \/ \E m \in Incoming : LoadNoData(m)
    \/ \E m \in Incoming : LoadCorrupted(m)
    \/ \E m \in Incoming : LoadShow(m)
    \/ \E m \in Incoming : Ignore(m)
    \/ \E h \in 1..Len(hs) : Finish(h)
    \/ \E h \in 1..Len(hs) : NextChunk(h)

Spec == Init /\ [][Next]_vars

(* ------------------------------------------- _send_paginated on any text *)
\* The texts _send_paginated is run on by itself: every length around the
\* chunk boundaries, in several fillings.
NumFillings == 3

PageAlphabet == <<"a", "\n", " ", "!", "\"">>

PageLengths ==
    {0, 1, max_chunk - 1, max_chunk, max_chunk + 1, 2 * max_chunk,
     2 * max_chunk + 1, 5000, 3 * max_chunk, 3 * max_chunk + 1}

PageTexts ==
    { [k \in 1..n |-> PageAlphabet[((k * f) % Len(PageAlphabet)) + 1]] :
        n \in PageLengths, f \in 1..NumFillings }

InitPage ==
    /\ file = Absent
    /\ file0 = file
    /\ hs = <<>>
    /\ outbox = <<>>
    /\ \E t \in PageTexts : pg = [text |-> t, i |-> 0, pc |-> "called", sent |-> <<>>]

\* the call up to its first await
PageStart ==
    /\ pg.pc = "called"
    /\ LET p == PaginateStart(pg.text)
       IN  pg' = [pg EXCEPT !.pc = p.pc, !.i = p.i, !.sent = pg.sent \o p.send]
    /\ UNCHANGED <<file, file0, hs, outbox>>

\* from one await to the next
PageResume ==
    /\ pg.pc = "paginating"
    /\ LET p == PaginateResume(pg.text, pg.i)
       IN  pg' = [pg EXCEPT !.pc = p.pc, !.i = p.i, !.sent = pg.sent \o p.send]
    /\ UNCHANGED <<file, file0, hs, outbox>>

NextPage == PageStart \/ PageResume

SpecPage == InitPage /\ [][NextPage]_vars

(* ================================================================ claims *)

\* x0 \o x1 \o ... of a sequence of sequences
RECURSIVE Flatten(_)
Flatten(ss) == IF ss = <<>> THEN <<>> ELSE Flatten(SubSeq(ss, 1, Len(ss) - 1)) \o ss[Len(ss)]

\* does sub occur in s as a contiguous slice
Contains(s, sub) ==
    \E k \in 0..(Len(s) - Len(sub)) : SubSeq(s, k + 1, k + Len(sub)) = sub

\* ceil(n / d)
CeilDiv(n, d) == (n + d - 1) \div d

\* the sent messages with the header and its line break taken off the first
ChunksSent(sent) ==
    [k \in 1..Len(sent) |-> IF k = 1 THEN Drop(sent[1], Len(HEADER) + 1) ELSE sent[k]]

\* the k-th chunk of text, by position
KthChunk(text, k) == Slice(text, (k - 1) * 1900, k * 1900)

(* C7: pagination.  Once _send_paginated has run on a text of length L it
   has sent exactly ceil(L / 1900) messages; the first is the header
   `Saved messages:`, a line break and the first chunk, every later one is
   its chunk as it is; no chunk is longer than 1900 characters; the chunks
   in send order concatenate to the text; and for L = 5000 there are 3.
   While it runs, what it has sent are the first chunks, in order. *)
C7_Pagination ==
    LET L == Len(pg.text)
        chunks == ChunksSent(pg.sent)
    IN  /\ \A k \in 1..Len(pg.sent) :
              /\ pg.sent[k] = IF k = 1
                              THEN HEADER \o <<"\n">> \o KthChunk(pg.text, 1)
                              ELSE KthChunk(pg.text, k)
              /\ Len(chunks[k]) \in 1..1900
        /\ pg.pc = "done" =>
              /\ Len(pg.sent) = CeilDiv(L, 1900)
              /\ Flatten(chunks) = pg.text
              /\ L = 5000 => Len(pg.sent) = 3

\* a text of length 5000 has gone out, in three messages
C7_Witness == pg.pc = "done" /\ Len(pg.text) = 5000 /\ Len(pg.sent) = 3

(* ------------------------------------------- reading the calls and replies *)
Calls == 1..Len(hs)

\* the call has run to its end (returned, or ended by an exception)
Finished(h) == hs[h].pc \in {"done", "raised"}

\* what call h has sent, in send order
Replies(h) ==
    LET mine == SelectSeq(outbox, LAMBDA o : o.h = h)
    IN  [k \in 1..Len(mine) |-> mine[k].content]

\* the text a load has displayed: its messages, header taken off, in a row
ReplyText(h) == Flatten(ChunksSent(Replies(h)))

\* the T of a message `!save T`
SaveText(m) == Drop(m.content, 6)

\* T without the white space around it
Trimmed(t) ==
    LET inked == {k \in 1..Len(t) : ~IsSpace(t[k])}
    IN  IF inked = {} THEN <<>>
        ELSE SubSeq(t, CHOOSE k \in inked : \A j \in inked : k <= j,
                       CHOOSE k \in inked : \A j \in inked : k >= j)

IsSaveCmd(m) == Len(m.content) >= 5 /\ SubSeq(m.content, 1, 5) = <<"!","s","a","v","e">> (* !save *)

IsLoadCmd(m) == Len(m.content) >= 5 /\ SubSeq(m.content, 1, 5) = <<"!","l","o","a","d">> (* !load *)

\* a save that has something to save
SavesText(m) == IsSaveCmd(m) /\ Trimmed(SaveText(m)) # <<>>

\* a save with nothing, or only white space, after the prefix
EmptySave(m) == IsSaveCmd(m) /\ \A k \in 7..Len(m.content) : IsSpace(m.content[k])

\* the timezone argument of a load
LoadArg(m) == Trimmed(Drop(m.content, 5))

\* a load whose timezone argument, if any, resolves
LoadResolves(m) ==
    IsLoadCmd(m) /\ (LoadArg(m) = <<>> \/ ZoneInfo(LoadArg(m)).res = "ok")

\* the entry a save stores
EntryOf(m) ==
    Entry(JStr(m.author), JStr(IsoFormat(m.created_at)), JStr(Trimmed(SaveText(m))))

\* the sequence of entries a file stands for
StoredSeq(f) ==
    CASE f.kind # "json" -> <<>>
      [] f.kind = "json" /\ f.val.t = "list" -> f.val.v
      [] OTHER -> <<f.val>>

\* text.split('\n')
RECURSIVE SplitFrom(_, _, _)
SplitFrom(text, breaks, start) ==
    LET later == {k \in breaks : k >= start}
    IN  IF later = {} THEN <<Slice(text, start - 1, Len(text))>>
        ELSE LET b == CHOOSE k \in later : \A j \in later : k <= j
             IN  <<Slice(text, start - 1, b - 1)>> \o SplitFrom(text, breaks, b + 1)

Lines(text) == SplitFrom(text, {k \in 1..Len(text) : text[k] = "\n"}, 1)

\* the payload line numbered k that shows the JSON text q
NumberedLine(k, q) == <<" "," ">> \o IntToChars(k) \o <<")"," ">> \o q

\* the timestamp line that shows t
StampLine(t) == <<" "," "," "," "," "," "," ","T","i","m","e","s","t","a","m","p",":"," ">> (*        Timestamp:  *) \o t

\* the first lines of the groups
GroupStarts(lines) ==
    {a \in 1..Len(lines) : lines[a] # <<>> /\ (a = 1 \/ lines[a - 1] = <<>>)}

\* q is a numbered payload line of the group headed `Author: author (n ...)`
UnderGroupOf(lines, author, q) ==
    \E a \in GroupStarts(lines) : \E n \in 1..Len(lines) : \E k \in 1..n :
        /\ lines[a] = HeaderLine(author, n)
        /\ a + 2 * k - 1 <= Len(lines)
        /\ lines[a + 2 * k - 1] = NumberedLine(k, q)

\* `!save T` and then `!load` with no argument, the load run to its end
SaveThenLoad(h) ==
    /\ h \in Calls /\ h >= 2
    /\ StartsWith(hs[h - 1].msg.content, <<"!","s","a","v","e"," ">> (* !save  *))
    /\ SavesText(hs[h - 1].msg)
    /\ IsLoadCmd(hs[h].msg) /\ LoadArg(hs[h].msg) = <<>>
    /\ Finished(h)

(* C1 as stated: after `!save T` from A and then `!load`, the JSON-quoted
   form of T itself is a numbered payload line under A's group header. *)
C1_QuotedTextShown ==
    \A h \in Calls :
        SaveThenLoad(h) =>
            UnderGroupOf(Lines(ReplyText(h)), hs[h - 1].msg.author,
                         Quote(SaveText(hs[h - 1].msg)))

(* C1, amended: after `!save T` from A and then `!load` with no timezone
   argument, whatever data.json was before, the JSON-quoted form of T with
   the white space around it trimmed is a numbered payload line under A's
   group header in the load's output. *)
C1_TrimmedTextShown ==
    \A h \in Calls :
        SaveThenLoad(h) =>
            UnderGroupOf(Lines(ReplyText(h)), hs[h - 1].msg.author,
                         Quote(Trimmed(SaveText(hs[h - 1].msg))))

\* a text with white space before it was saved over an unparseable file and
\* then loaded
C1_Witness ==
    /\ SaveThenLoad(2)
    /\ file0 = Unparseable
    /\ Trimmed(SaveText(hs[1].msg)) # SaveText(hs[1].msg)
    /\ Len(Replies(2)) = 1

(* ----------------------------------------------------------------- C2 *)
Authors == {AL, BOB, UNKNOWN}

\* the count a group header shows, -1 for a line that is no header
CountShown(line, max) ==
    IF \E n \in 0..max : \E au \in Authors : line = HeaderLine(au, n)
    THEN CHOOSE n \in 0..max : \E au \in Authors : line = HeaderLine(au, n)
    ELSE -1

\* the sum of the counts shown by the headers at lines S
RECURSIVE SumShown(_, _, _)
SumShown(lines, S, max) ==
    IF S = {} THEN 0
    ELSE LET a == CHOOSE x \in S : TRUE
         IN  CountShown(lines[a], max) + SumShown(lines, S \ {a}, max)

\* the lines that are numbered payload lines
PayloadLines(lines) ==
    {j \in 1..Len(lines) :
        \E k \in 1..Len(lines) : StartsWith(lines[j], NumberedLine(k, <<>>))}

\* the places where the entry of message m is displayed, to a load in zone
ShownAt(lines, m, zone) ==
    {j \in 1..(Len(lines) - 1) :
        /\ \E k \in 1..Len(lines) :
              lines[j] = NumberedLine(k, Quote(Trimmed(SaveText(m))))
        /\ lines[j + 1] = StampLine(HumanTs(JStr(IsoFormat(m.created_at)), zone))}

\* the saves with something to save that arrived before call h
SavesBefore(h) == {s \in 1..(h - 1) : SavesText(hs[s].msg)}

(* C2: round trip.  Starting with no data.json, a load that comes after N
   successful saves displays exactly N entries: the counts in the group
   headers sum to N, there are N payload lines, and each saved entry is
   displayed exactly once; after no save the load sends the "no data
   found" reply and nothing else. *)
C2_RoundTripCount ==
    file0 = Absent =>
        \A h \in Calls :
            (LoadResolves(hs[h].msg) /\ Finished(h)) =>
                LET N == Cardinality(SavesBefore(h))
                    lines == Lines(ReplyText(h))
                IN  IF N = 0 THEN Replies(h) = <<NO_DATA>>
                    ELSE /\ SumShown(lines, GroupStarts(lines), N) = N
                         /\ Cardinality(PayloadLines(lines)) = N
                         /\ \A s \in SavesBefore(h) :
                               Cardinality(ShownAt(lines, hs[s].msg, hs[h].tz_obj)) = 1

\* a load after one save, and a load after none, both from no file
C2_Witness ==
    /\ file0 = Absent /\ Len(hs) = 2
    /\ SavesText(hs[1].msg)
    /\ LoadResolves(hs[2].msg) /\ Finished(2)
    /\ Cardinality(PayloadLines(Lines(ReplyText(2)))) = 1

(* ----------------------------------------------------------------- C3 *)
\* the call that a step starts, if it starts one
Started == IF Len(hs') = Len(hs) + 1 THEN {Len(hs')} ELSE {}

(* C3: the store is append-only.  Every step keeps the stored sequence as
   a prefix of the new one; the step in which a save with something to
   save is handled adds exactly its entry at the end, and every other
   step leaves the sequence as it was. *)
C3_AppendOnly ==
    [][LET old == StoredSeq(file)
           new == StoredSeq(file')
       IN  /\ Len(new) >= Len(old)
           /\ SubSeq(new, 1, Len(old)) = old
           /\ IF \E h \in Started : SavesText(hs'[h].msg)
              THEN \A h \in Started : new = Append(old, EntryOf(hs'[h].msg))
              ELSE new = old]_vars

\* two saves were appended behind a lone JSON value
C3_Witness ==
    /\ file0.kind = "json" /\ file0.val.t = "obj"
    /\ Len(StoredSeq(file)) = 3
    /\ StoredSeq(file)[1] = file0.val

(* ----------------------------------------------------------------- C4 *)
(* C4: a save with nothing, or only white space, after the prefix sends
   the usage hint, and only it, and leaves data.json as it is: absent if
   it was absent, unchanged if it was there. *)
C4_EmptySaveFrame ==
    /\ [][\A h \in Started :
            EmptySave(hs'[h].msg) =>
                /\ file' = file
                /\ outbox' = Append(outbox, [h |-> h, content |-> USAGE])]_vars
    /\ [](\A h \in Calls : EmptySave(hs[h].msg) => Replies(h) = <<USAGE>>)

\* `!save` and white space, handled to the end, with no file before or after
C4_Witness ==
    \E h \in Calls :
        /\ EmptySave(hs[h].msg) /\ Len(hs[h].msg.content) > 6
        /\ Finished(h)
        /\ file0 = Absent /\ file = Absent

(* ----------------------------------------------------------------- C5 *)
(* C5: a load whose non-empty argument does not resolve as a timezone, in
   whatever way the resolution fails, replies with the "unknown timezone"
   message naming the argument and nothing else, and leaves the store
   alone. *)
C5_UnresolvedZoneReplies ==
    \A h \in Calls :
        (/\ IsLoadCmd(hs[h].msg)
         /\ LoadArg(hs[h].msg) # <<>>
         /\ ZoneInfo(LoadArg(hs[h].msg)).res # "ok") =>
            /\ Replies(h) = <<UnknownTimezone(LoadArg(hs[h].msg))>>
            /\ hs[h].data = <<>>

(* ----------------------------------------------------------------- C6 *)
\* the calls that take the step: the one started or the one resumed
Stepping == Started \cup {h \in Calls : hs'[h] # hs[h]}

(* C6: a load never changes data.json, whatever its outcome; and two
   loads in a row with the same argument, once both have run to their
   end, have sent the same replies (the "corrupted" reply both times when
   the file is unparseable). *)
C6_LoadReadOnly ==
    /\ [][(\E h \in Stepping : IsLoadCmd(hs'[h].msg)) => file' = file]_vars
    /\ [](\A h \in Calls :
             (/\ h >= 2
              /\ IsLoadCmd(hs[h].msg)
              /\ hs[h - 1].msg.content = hs[h].msg.content
              /\ Finished(h - 1) /\ Finished(h)) =>
                Replies(h) = Replies(h - 1))

\* two loads from an unparseable file, the "corrupted" reply both times
C6_Witness ==
    /\ file0 = Unparseable /\ file = Unparseable
    /\ Len(hs) = 2 /\ Finished(1) /\ Finished(2)
    /\ Replies(1) = <<CORRUPTED>> /\ Replies(2) = <<CORRUPTED>>

(* ----------------------------------------------------------------- C8 *)
\* an element that is not an object with an `author` key
Legacy(e) == ~(e.t = "obj" /\ \E k \in 1..Len(e.v) : e.v[k][1] = AUTHOR)

\* the author an element is displayed under
ShownUnder(e) ==
    IF Legacy(e) THEN UNKNOWN
    ELSE LET a == Get(e, AUTHOR)
         IN  IF a.t = "str" /\ a.v # <<>> THEN a.v ELSE UNKNOWN

\* the elements of data displayed under the same author as data[j]
GroupOf(data, j) == {i \in 1..Len(data) : ShownUnder(data[i]) = ShownUnder(data[j])}

\* where the author of data[j] is first seen
FirstSeen(data, j) == CHOOSE i \in GroupOf(data, j) : \A x \in GroupOf(data, j) : i <= x

\* the lines of the groups first seen before the group of data[j]
RECURSIVE LinesOfGroups(_, _)
LinesOfGroups(data, firsts) ==
    IF firsts = {} THEN 0
    ELSE LET f == CHOOSE x \in firsts : TRUE
         IN  2 + 2 * Cardinality(GroupOf(data, f)) + LinesOfGroups(data, firsts \ {f})

LinesBefore(data, j) ==
    LinesOfGroups(data, {FirstSeen(data, i) : i \in 1..Len(data)}
                        \cap 1..(FirstSeen(data, j) - 1))

\* the load of call h displays data[j] where the claim says it does
ShownInPlace(h, lines, j) ==
    LET data == hs[h].data
        e == data[j]
        head == LinesBefore(data, j) + 1
        k == Cardinality({i \in GroupOf(data, j) : i <= j})
    IN  /\ head + 2 * k <= Len(lines)
        /\ lines[head] = HeaderLine(ShownUnder(e), Cardinality(GroupOf(data, j)))
        /\ Legacy(e) =>
              /\ lines[head + 2 * k - 1] = NumberedLine(k, Dumps(e))
              /\ lines[head + 2 * k] = StampLine(NONE)
        /\ ~Legacy(e) =>
              /\ HasKey(e, PAYLOAD) =>
                    lines[head + 2 * k - 1] = NumberedLine(k, Dumps(Get(e, PAYLOAD)))
              /\ lines[head + 2 * k] =
                    StampLine(HumanTs(Get(e, TIMESTAMP), hs[h].tz_obj))

\* a load that displayed the store, run to its end
Displayed(h) == LoadResolves(hs[h].msg) /\ Finished(h) /\ hs[h].data # <<>>

(* C8: legacy entries.  In the output of a load every stored element that
   is not an object with an `author` key is displayed in the group
   `unknown`, its payload line the JSON text of the element itself and its
   timestamp line `None`; an element with an `author` key is displayed
   with its own payload and its own timestamp; the entries of a group are
   numbered in stored order, and the groups come in the order their
   authors are first seen. *)
C8_LegacyEntries ==
    \A h \in Calls :
        Displayed(h) =>
            LET lines == Lines(ReplyText(h))
            IN  /\ \A j \in 1..Len(hs[h].data) : ShownInPlace(h, lines, j)
                /\ Len(lines) =
                     LinesOfGroups(hs[h].data,
                                   {FirstSeen(hs[h].data, i) : i \in 1..Len(hs[h].data)})

\* a bare string, displayed in the group `unknown` ahead of a stored entry
\* whose author is literally "unknown"
C8_Witness ==
    \E h \in Calls :
        /\ Displayed(h)
        /\ hs[h].data[1] = JStr(<<"s">>)
        /\ Len(hs[h].data) >= 3
        /\ Lines(ReplyText(h))[1] = HeaderLine(UNKNOWN, 2)

(* ----------------------------------------------------------------- C9 *)
\* where the entry of message m stands in the stored sequence
StoredAt(m) == {k \in 1..Len(StoredSeq(file)) : StoredSeq(file)[k] = EntryOf(m)}

(* C9: no lost update.  However the calls interleave at their awaits, the
   entry of every save with something to save that has been handled is
   in the store exactly once, and the store holds one entry more than it
   started with for each such save: in every state, so also once all
   calls have run to their end. *)
C9_NoLostUpdate ==
    LET saves == {s \in Calls : SavesText(hs[s].msg)}
    IN  /\ \A s \in saves : Cardinality(StoredAt(hs[s].msg)) = 1
        /\ Len(StoredSeq(file)) = Len(StoredSeq(file0)) + Cardinality(saves)

\* two saves suspended at their sends at the same time, both entries stored
C9_Witness ==
    /\ Len(hs) = 2
    /\ hs[1].pc = "saved" /\ hs[2].pc = "saved"
    /\ StoredAt(hs[1].msg) # {} /\ StoredAt(hs[2].msg) # {}

(* ---------------------------------------------------------------- C10 *)
\* the replies of one call stand together in the channel
Contiguous ==
    \A i, k \in 1..Len(outbox) :
        (i < k /\ outbox[i].h = outbox[k].h) =>
            \A j \in i..k : outbox[j].h = outbox[i].h

\* what a load has sent are the first chunks of its text, in chunk order,
\* and all of them once it has ended
ChunksInOrder(h) ==
    /\ \A k \in 1..Len(Replies(h)) :
          Replies(h)[k] = IF k = 1
                          THEN HEADER \o <<"\n">> \o KthChunk(hs[h].text, 1)
                          ELSE KthChunk(hs[h].text, k)
    /\ Finished(h) => Len(Replies(h)) = CeilDiv(Len(hs[h].text), 1900)

\* a load displays no entry saved by a message that arrived after it
NothingFromLater(h) ==
    \A s \in Calls :
        (s > h /\ SavesText(hs[s].msg)) =>
            /\ \A j \in 1..Len(hs[h].data) : hs[h].data[j] # EntryOf(hs[s].msg)
            /\ ~Contains(ReplyText(h),
                         StampLine(HumanTs(JStr(IsoFormat(hs[s].msg.created_at)),
                                           hs[h].tz_obj)))

\* a load that read a JSON value from data.json
Showing(h) == LoadResolves(hs[h].msg) /\ hs[h].pc \in {"paginating", "done"}
              /\ Replies(h) \notin {<<NO_DATA>>, <<CORRUPTED>>}

(* C10 as stated: a message is handled to its end, replies included, before
   the handling of the next begins, so that the replies of one call, and
   the chunks of a load among them, stand together in the channel with no
   reply to another message between them; the chunks go out in chunk
   order; and a load displays nothing saved by a later message. *)
C10_OneEventAtATime ==
    /\ Contiguous
    /\ \A h \in Calls : Showing(h) => ChunksInOrder(h) /\ NothingFromLater(h)

(* C10, amended: the handling of a message may begin while an earlier call
   is suspended at a send, so replies to other messages may stand between
   the chunks of a load; the chunks of one load still go out in increasing
   chunk order, and a load displays nothing saved by a message that
   arrived after it. *)
C10_ChunksInOrder ==
    \A h \in Calls : Showing(h) => ChunksInOrder(h) /\ NothingFromLater(h)

\* the confirmation of a later save stands between the two chunks of a load
C10_Witness ==
    /\ Len(outbox) = 3 /\ Len(hs) = 2
    /\ outbox[1].h = 1 /\ outbox[2].h = 2 /\ outbox[3].h = 1
    /\ outbox[2].content = SAVED
    /\ Showing(1) /\ Finished(1)

====
